---------------------------- MODULE Spec2Model ----------------------------
(***************************************************************************)
(* DarkSirensStat: the parallel map of Xi0Stat/globals.py and the galaxy   *)
(* catalogue classes of DarkSirensStat/galCat.py (GalCat, GalCompleted).   *)
(*                                                                         *)
(* The specifications of the module:                                       *)
(*   SpecParmap / SpecParmapFair  parmap: the main process, nCores worker  *)
(*                                processes and the two queues             *)
(*   SpecBatch                    include_vol_prior's batching             *)
(*   SpecFilter                   include_vol_prior's removal mask         *)
(*   SpecCat                      GalCat's selections and pixel columns    *)
(*                                under the calls of GalCompleted          *)
(*   SpecInhom                    the weights of get_inhom and             *)
(*                                get_inhom_contained                      *)
(***************************************************************************)
EXTENDS Integers, Sequences, FiniteSets, TLC

VARIABLES
    \* ---- parmap (globals.py:50-74)
    nCores,     \* multiprocessing.cpu_count()
    X,          \* the input list
    failSet,    \* the input values on which f raises (at most one value)
    q_in,       \* multiprocessing.Queue(1)
    q_out,      \* multiprocessing.Queue()
    mpc,        \* the main process's position in parmap
    sent,       \* len(sent) so far: items enqueued by line 68
    stops,      \* sentinels enqueued by line 69
    res,        \* the list line 70 builds
    joined,     \* processes joined by line 72
    wpc,        \* each worker's position in fun
    wItem,      \* the (i, x) a worker holds
    ret,        \* parmap's return value
    \* ---- include_vol_prior, batching (galCat.py:168-207)
    bN,         \* len(df)
    bpc,        \* the position in include_vol_prior
    bArrival,   \* the (b, result) pairs in the order parmap collected them
    bBlocks,    \* parmap's return value: one block of rows per batch
    bStacked,   \* np.vstack of the blocks
    \* ---- include_vol_prior, removal mask (galCat.py:207-222)
    fpc,        \* the position in include_vol_prior
    fDf,        \* the table: the row ids, in order
    fRes,       \* res: the five corrected quantiles of each row
    fOut,       \* the returned table
    \* ---- GalCat and GalCompleted (galCat.py:24-75, 248-469)
    data,       \* each catalogue's self.data: the rows of the full table
    cat,        \* each catalogue's pixel columns and self.selectedData
    model,      \* each catalogue's completeness model
    galcats,    \* GalCompleted._galcats
    catweights, \* GalCompleted._catweights
    mode,       \* completionType: "add", "mult" or "mix"
    out,        \* what the last call on the aggregator returned
    hist        \* history: each catalogue's table as loaded, the last
                \* select_area, the z ranges set since, the pixel columns
                \* computed so far and those computed more than once

pvars == <<nCores, X, failSet, q_in, q_out, mpc, sent, stops, res, joined,
           wpc, wItem, ret>>

bvars == <<bN, bpc, bArrival, bBlocks, bStacked>>

fvars == <<fpc, fDf, fRes, fOut>>

cvars == <<data, cat, model, galcats, catweights, mode, out, hist>>

vars == <<pvars, bvars, fvars, cvars>>

-----------------------------------------------------------------------------
(* Bounds of the model *)

MaxCores == 2
MaxLen == 3
MaxRows == 40005
MaxFRows == 2

-----------------------------------------------------------------------------
(* float64 values: exact rationals n/d, with d = 0 for the values a division *)
(* by zero produces: 1/0 is inf, -1/0 is -inf, 0/0 is nan                   *)

Abs(i) == IF i < 0 THEN -i ELSE i

Min(a, b) == IF a <= b THEN a ELSE b

Max(a, b) == IF a >= b THEN a ELSE b

Sign(i) == IF i < 0 THEN -1 ELSE IF i > 0 THEN 1 ELSE 0

RECURSIVE GCD(_, _)
GCD(a, b) == IF b = 0 THEN a ELSE GCD(b, a % b)

\* n/d in lowest terms, d >= 0
Rat(n, d) ==
    IF d = 0 THEN [n |-> Sign(n), d |-> 0]
    ELSE LET g == GCD(Abs(n), Abs(d))
         IN  [n |-> Sign(d) * (n \div g), d |-> Abs(d) \div g]

Num(i) == [n |-> i, d |-> 1]

NaN == [n |-> 0, d |-> 0]

IsNaN(a) == a.d = 0 /\ a.n = 0

IsInf(a) == a.d = 0 /\ a.n # 0

IsFinite(a) == a.d # 0

\* a*b, the common factors removed before the products are formed
RMul(a, b) ==
    IF a.d = 0 \/ b.d = 0 \/ a.n = 0 \/ b.n = 0 THEN Rat(a.n * b.n, a.d * b.d)
    ELSE LET g1 == GCD(Abs(a.n), b.d)
             g2 == GCD(Abs(b.n), a.d)
         IN  Rat((a.n \div g1) * (b.n \div g2), (a.d \div g2) * (b.d \div g1))

\* 1/b: 1/0 is inf, 1/inf is 0, 1/nan is nan
RInv(b) == Rat(b.d, b.n)

RDiv(a, b) == RMul(a, RInv(b))

RAdd(a, b) ==
    IF IsNaN(a) \/ IsNaN(b) THEN NaN
    ELSE IF IsInf(a) /\ IsInf(b) THEN (IF a.n = b.n THEN a ELSE NaN)
    ELSE IF IsInf(a) THEN a
    ELSE IF IsInf(b) THEN b
    ELSE LET g == GCD(a.d, b.d)
         IN  Rat(a.n * (b.d \div g) + b.n * (a.d \div g), (a.d \div g) * b.d)

RSub(a, b) == RAdd(a, [n |-> -b.n, d |-> b.d])

\* the order of floats: every comparison with nan is false
RLt(a, b) ==
    /\ ~IsNaN(a)
    /\ ~IsNaN(b)
    /\ IF IsInf(a) /\ IsInf(b) THEN a.n < b.n ELSE a.n * b.d < b.n * a.d

RGe(a, b) ==
    /\ ~IsNaN(a)
    /\ ~IsNaN(b)
    /\ ~RLt(a, b)

RLe(a, b) == RGe(b, a)

-----------------------------------------------------------------------------
(* parmap *)

\* the maxsize of q_in
QInMaxSize == 1

\* the values of the items of X
InputValues == {0, 1}

\* f, any pure function of the item: results of distinct items differ by value
\* only where the items do
f(x) == 10 * x + 7

\* (i, x) as put on q_in; the stop sentinel is (None, None)
Item(i, x) == [none |-> FALSE, i |-> i, x |-> x]
Sentinel == [none |-> TRUE, i |-> 0, x |-> 0]

Workers == 1..nCores

\* Python's order on the tuples (i, f(x))
TupleLess(a, b) == a[1] < b[1] \/ (a[1] = b[1] /\ a[2] < b[2])

RECURSIVE InsertSorted(_, _)
InsertSorted(t, s) ==
    IF s = <<>> THEN <<t>>
    ELSE IF TupleLess(s[1], t) THEN <<s[1]>> \o InsertSorted(t, Tail(s))
    ELSE <<t>> \o s

RECURSIVE SortTuples(_)
SortTuples(s) ==
    IF s = <<>> THEN <<>> ELSE InsertSorted(s[1], SortTuples(Tail(s)))

\* faulty variant of sorted: the results left in arrival order
UnsortedTuples(s) == s

\* sorted(res)
sorted(s) == SortTuples(s)

\* [x for i, x in s]
Seconds(s) == [k \in 1..Len(s) |-> s[k][2]]

\* faulty variant of SentinelCount: one sentinel too few
SentinelCountShort == nCores - 1

\* range(nCores) of line 69
SentinelCount == nCores

\* the state of parmap while no call of it is modelled
ParmapIdle ==
    /\ nCores = 1
    /\ X = <<>>
    /\ failSet = {}
    /\ q_in = <<>>
    /\ q_out = <<>>
    /\ mpc = "idle"
    /\ sent = 0
    /\ stops = 0
    /\ res = <<>>
    /\ joined = 0
    /\ wpc = <<"idle">>
    /\ wItem = <<Sentinel>>
    /\ ret = <<>>

\* the state of include_vol_prior while no call of it is modelled
BatchIdle ==
    /\ bN = 0
    /\ bpc = "idle"
    /\ bArrival = <<>>
    /\ bBlocks = <<>>
    /\ bStacked = <<>>

FilterIdle ==
    /\ fpc = "idle"
    /\ fDf = <<>>
    /\ fRes = <<>>
    /\ fOut = <<>>

\* the state of the catalogues while none is modelled
CatIdle ==
    /\ data = <<>>
    /\ cat = <<>>
    /\ model = <<>>
    /\ galcats = <<>>
    /\ catweights = <<>>
    /\ mode = "idle"
    /\ out = [status |-> "none"]
    /\ hist = <<>>

ParmapInit ==
    /\ BatchIdle
    /\ FilterIdle
    /\ CatIdle
    /\ nCores \in 1..MaxCores
    /\ X \in UNION {[1..n -> InputValues] : n \in 0..MaxLen}
    /\ failSet \in {{}} \cup {{v} : v \in InputValues}
    /\ q_in = <<>>
    /\ q_out = <<>>
    /\ mpc = "put"
    /\ sent = 0
    /\ stops = 0
    /\ res = <<>>
    /\ joined = 0
    /\ wpc = [w \in 1..nCores |-> "get"]
    /\ wItem = [w \in 1..nCores |-> Sentinel]
    /\ ret = <<>>

\* line 68: q_in.put((i, x)) for the next item, blocking while q_in is full
MainPut ==
    /\ mpc = "put"
    /\ sent < Len(X)
    /\ Len(q_in) < QInMaxSize
    /\ q_in' = Append(q_in, Item(sent, X[sent + 1]))
    /\ sent' = sent + 1
    /\ UNCHANGED <<nCores, X, failSet, q_out, mpc, stops, res, joined, wpc, wItem, ret>>

\* line 68 is finished
MainPutDone ==
    /\ mpc = "put"
    /\ sent = Len(X)
    /\ mpc' = "sentinel"
    /\ UNCHANGED <<nCores, X, failSet, q_in, q_out, sent, stops, res, joined, wpc, wItem, ret>>

\* line 69: q_in.put((None, None)), nCores times
MainSentinel ==
    /\ mpc = "sentinel"
    /\ IF stops < SentinelCount
       THEN /\ Len(q_in) < QInMaxSize
            /\ q_in' = Append(q_in, Sentinel)
            /\ stops' = stops + 1
            /\ mpc' = mpc
       ELSE /\ mpc' = "collect"
            /\ UNCHANGED <<q_in, stops>>
    /\ UNCHANGED <<nCores, X, failSet, q_out, sent, res, joined, wpc, wItem, ret>>

\* line 70: q_out.get(), len(sent) times, blocking while q_out is empty
MainCollect ==
    /\ mpc = "collect"
    /\ IF Len(res) < sent
       THEN /\ q_out # <<>>
            /\ res' = Append(res, Head(q_out))
            /\ q_out' = Tail(q_out)
            /\ mpc' = mpc
       ELSE /\ mpc' = "join"
            /\ UNCHANGED <<q_out, res>>
    /\ UNCHANGED <<nCores, X, failSet, q_in, sent, stops, joined, wpc, wItem, ret>>

\* line 72: p.join() for each process in turn; a join returns once the
\* process has ended, normally or by an uncaught exception
MainJoin ==
    /\ mpc = "join"
    /\ joined < nCores
    /\ wpc[joined + 1] \in {"exited", "failed"}
    /\ joined' = joined + 1
    /\ UNCHANGED <<nCores, X, failSet, q_in, q_out, mpc, sent, stops, res, wpc, wItem, ret>>

\* line 74
MainReturn ==
    /\ mpc = "join"
    /\ joined = nCores
    /\ ret' = Seconds(sorted(res))
    /\ mpc' = "done"
    /\ UNCHANGED <<nCores, X, failSet, q_in, q_out, sent, stops, res, joined, wpc, wItem>>

\* fun, lines 52-54: q_in.get(), and the break on the sentinel
WorkerGet(w) ==
    /\ wpc[w] = "get"
    /\ q_in # <<>>
    /\ q_in' = Tail(q_in)
    /\ wItem' = [wItem EXCEPT ![w] = Head(q_in)]
    /\ wpc' = [wpc EXCEPT ![w] = IF Head(q_in).none THEN "exited" ELSE "call"]
    /\ UNCHANGED <<nCores, X, failSet, q_out, mpc, sent, stops, res, joined, ret>>

\* fun, line 55: q_out.put((i, f(x))); an exception of f is not caught, so it
\* ends the worker process without a result
WorkerCall(w) ==
    /\ wpc[w] = "call"
    /\ IF wItem[w].x \in failSet
       THEN /\ wpc' = [wpc EXCEPT ![w] = "failed"]
            /\ q_out' = q_out
       ELSE /\ q_out' = Append(q_out, <<wItem[w].i, f(wItem[w].x)>>)
            /\ wpc' = [wpc EXCEPT ![w] = "get"]
    /\ UNCHANGED <<nCores, X, failSet, q_in, mpc, sent, stops, res, joined, wItem, ret>>

MainNext ==
    /\ \/ MainPut
       \/ MainPutDone
       \/ MainSentinel
       \/ MainCollect
       \/ MainJoin
       \/ MainReturn
    /\ UNCHANGED <<bvars, fvars, cvars>>

WorkerNext(w) ==
    /\ \/ WorkerGet(w)
       \/ WorkerCall(w)
    /\ UNCHANGED <<bvars, fvars, cvars>>

ParmapNext ==
    \/ MainNext
    \/ \E w \in Workers : WorkerNext(w)

SpecParmap == ParmapInit /\ [][ParmapNext]_vars

\* the operating system schedules every process that can run
SpecParmapFair ==
    /\ SpecParmap
    /\ WF_vars(MainNext)
    /\ \A w \in 1..MaxCores : WF_vars(w \in Workers /\ WorkerNext(w))

-----------------------------------------------------------------------------
(* include_vol_prior: the batches *)

batchSize == 10000

\* int(a/b) for non-negative a and positive b
IntDiv(a, b) == a \div b

\* nBatches = max(int(len(df)/batchSize), 1)
NBatches(N) == Max(IntDiv(N, batchSize), 1)

\* faulty variant of BatchStop: the last batch not extended to the end of the
\* table
BatchStopNoTail(N, nBatches, batchId) == IntDiv(N, nBatches) * (batchId + 1)

\* convolve_batch: start = n*batchId
BatchStart(N, nBatches, batchId) == IntDiv(N, nBatches) * batchId

\* convolve_batch: stop = n*(batchId+1), or N for the last batch
BatchStop(N, nBatches, batchId) ==
    IF batchId = nBatches - 1 THEN N ELSE IntDiv(N, nBatches) * (batchId + 1)

\* df.iloc[start:stop] of a table of N rows: the positions start..stop-1 that
\* exist, as the pair <<first, one past the last>>
Iloc(N, start, stop) ==
    LET a == Min(start, N)
        b == Min(stop, N)
    IN  <<a, Max(a, b)>>

\* convolve_batch(df, func, batchId, nBatches): one output row per row of the
\* batch, in the batch's order; a block <<a, b>> stands for the corrected
\* quantiles of the input rows a..b-1
convolve_batch(N, batchId, nBatches) ==
    Iloc(N, BatchStart(N, nBatches, batchId), BatchStop(N, nBatches, batchId))

\* the orders in which the nBatches results can arrive on q_out
Arrivals(nBatches) ==
    {p \in [1..nBatches -> 0..(nBatches - 1)] :
        \A i, j \in 1..nBatches : i # j => p[i] # p[j]}

\* np.vstack of blocks of rows: the blocks one after the other, empty blocks
\* contributing no row
RECURSIVE vstack(_)
vstack(blocks) ==
    IF blocks = <<>> THEN <<>>
    ELSE IF blocks[1][1] = blocks[1][2] THEN vstack(Tail(blocks))
    ELSE <<blocks[1]>> \o vstack(Tail(blocks))

\* the number of rows of a stack of blocks
RECURSIVE RowCount(_)
RowCount(blocks) ==
    IF blocks = <<>> THEN 0
    ELSE (blocks[1][2] - blocks[1][1]) + RowCount(Tail(blocks))

\* the input row whose corrected quantiles are row i of a stack of blocks
\* (-1 when the stack has no row i)
RECURSIVE RowAt(_, _)
RowAt(blocks, i) ==
    IF blocks = <<>> THEN -1
    ELSE LET len == blocks[1][2] - blocks[1][1]
         IN  IF i < len THEN blocks[1][1] + i ELSE RowAt(Tail(blocks), i - len)

BatchInit ==
    /\ ParmapIdle
    /\ FilterIdle
    /\ CatIdle
    /\ bN \in 1..MaxRows
    /\ bpc = "start"
    /\ bArrival = <<>>
    /\ bBlocks = <<>>
    /\ bStacked = <<>>

\* line 207, the workers: every batch is convolved and its (b, result) pair
\* is collected, in any order
BatchCollect ==
    /\ bpc = "start"
    /\ \E p \in Arrivals(NBatches(bN)) :
          bArrival' = [k \in 1..NBatches(bN) |->
                          <<p[k], convolve_batch(bN, p[k], NBatches(bN))>>]
    /\ bpc' = "collected"
    /\ UNCHANGED <<bN, bBlocks, bStacked>>

\* line 207, parmap's return: the results sorted by batch index
BatchReturn ==
    /\ bpc = "collected"
    /\ bBlocks' = Seconds(sorted(bArrival))
    /\ bpc' = "returned"
    /\ UNCHANGED <<bN, bArrival, bStacked>>

\* line 207: res = np.vstack(...)
BatchStack ==
    /\ bpc = "returned"
    /\ bStacked' = vstack(bBlocks)
    /\ bpc' = "stacked"
    /\ UNCHANGED <<bN, bArrival, bBlocks>>

BatchNext ==
    /\ \/ BatchCollect
       \/ BatchReturn
       \/ BatchStack
    /\ UNCHANGED <<pvars, fvars, cvars>>

SpecBatch == BatchInit /\ [][BatchNext]_vars

-----------------------------------------------------------------------------
(* include_vol_prior: the removal mask *)

\* the values a corrected quantile takes in the model
QuantileValues == {NaN} \cup {Num(i) : i \in -1..4}

\* the outputs of the convolution considered for one row: the lower bound is
\* -1, 0, 1 or nan, and every later position k holds k-1 (the value in
\* order), k-2 or nan; rows in strict order, with equal neighbours, with a
\* decreasing pair, with a negative lower bound and with nan are among them
QuantileRows ==
    {q \in [1..5 -> QuantileValues] :
        /\ q[1] \in {NaN, Num(-1), Num(0), Num(1)}
        /\ \A k \in 2..5 : q[k] \in {NaN, Num(k - 1), Num(k - 2)}}

\* line 209: the mask of one row of res
RemovalMask(q) ==
    \/ RGe(q[1], q[2])
    \/ RGe(q[2], q[3])
    \/ RGe(q[3], q[4])
    \/ RGe(q[4], q[5])
    \/ RLt(q[1], Num(0))

\* s[~mask]: the elements of s at the positions where keep holds, in order
RECURSIVE SelectRows(_, _)
SelectRows(s, keep) ==
    IF s = <<>> THEN <<>>
    ELSE (IF keep[1] THEN <<s[1]>> ELSE <<>>) \o SelectRows(Tail(s), Tail(keep))

FilterInit ==
    /\ ParmapIdle
    /\ BatchIdle
    /\ CatIdle
    /\ fpc = "start"
    /\ fDf \in {[k \in 1..n |-> k] : n \in 1..MaxFRows}
    /\ fRes = <<>>
    /\ fOut = <<>>

\* line 207: res, one row of five corrected quantiles per row of df (a table
\* this short is one batch); the convolution's values are an input
FilterConvolve ==
    /\ fpc = "start"
    /\ NBatches(Len(fDf)) = 1
    /\ fRes' \in [1..RowCount(vstack(<<convolve_batch(Len(fDf), 0, 1)>>)) -> QuantileRows]
    /\ fpc' = "convolved"
    /\ UNCHANGED <<fDf, fOut>>

\* lines 209-222: the mask, the five columns replaced, df[~mask] returned
FilterReturn ==
    /\ fpc = "convolved"
    /\ fOut' = SelectRows([k \in 1..Len(fDf) |-> [id |-> fDf[k], q |-> fRes[k]]],
                          [k \in 1..Len(fDf) |-> ~RemovalMask(fRes[k])])
    /\ fpc' = "returned"
    /\ UNCHANGED <<fDf, fRes>>

FilterNext ==
    /\ \/ FilterConvolve
       \/ FilterReturn
    /\ UNCHANGED <<pvars, bvars, cvars>>

SpecFilter == FilterInit /\ [][FilterNext]_vars

-----------------------------------------------------------------------------
(* GalCat: one catalogue *)

\* a row of a catalogue: the sky position (theta, phi) as a cell number, the
\* redshift z, the weight w
Galaxy(pos, z, w) == [pos |-> pos, z |-> z, w |-> w]

\* the tables load() produces for the two catalogues of the model
CatTables ==
    << <<Galaxy(0, 0, 1), Galaxy(1, 1, 2), Galaxy(3, 2, 1)>>,
       <<Galaxy(3, 1, 1), Galaxy(2, 2, 3)>> >>

Cats == 1..Len(CatTables)

\* the resolutions and pixel sets passed to select_area, the z ranges passed
\* to set_z_range_for_selection, the weights passed to add_cat, the grids
\* passed to get_inhom_contained
Nsides == {1, 2}

PixelSets == {{0}, {0, 1}, {2, 3}}

ZRanges == {<<0, 2>>, <<1, 3>>}

CatWeightChoices == {2}

ZGrids == {<<1, 2>>}

\* hp.ang2pix(nside, theta, phi): two pixels at nside 1, four at nside 2,
\* every pixel of nside 1 split in two at nside 2
ang2pix(nside, pos) == (pos * nside) \div 2

\* the completeness models: _completeness.get(theta, phi, z) is the value
\* below less the floor that GalCat.completeness adds back
CompletenessShape(m, pos, z) ==
    IF m = 1 THEN Rat(1, 1)
    ELSE IF z = 0 THEN Rat(1, 1)
    ELSE IF pos % 2 = 0 THEN Rat(1, 2) ELSE Rat(1, 4)

ModelIds == {1, 2}

CompletenessFloor == Rat(1, 1000000000)

CompletenessModel_get(m, pos, z) == RSub(CompletenessShape(m, pos, z), CompletenessFloor)

\* _completeness._comovingDensityGoal of each catalogue
comovingDensityGoal == <<Num(1), Num(2)>>

\* GalCat.completeness: _completeness.get(...) + 1e-9
completeness(m, pos, z) == RAdd(CompletenessModel_get(m, pos, z), CompletenessFloor)

\* the rows of the frame 1..n
AllRows(table) == [k \in 1..Len(table) |-> k]

\* the pixel columns of selectedData: those of data while both are one frame
SelCols(cr) == IF cr.selIsData THEN cr.dataCols ELSE cr.selCols

\* __init__, line 37: self.selectedData = self.data
GalCat_init(table) ==
    [dataCols |-> {}, selRows |-> AllRows(table), selCols |-> {}, selIsData |-> TRUE]

\* faulty variant of SelectAreaRows: the mask applied to the current selection
SelectAreaOfSelection(cr, table, pixels, nside) ==
    LET InPixels(k) == ang2pix(nside, table[k].pos) \in pixels
    IN  SelectSeq(cr.selRows, InPixels)

\* select_area, lines 54-56: the rows of self.data whose pixel is in pixels
SelectAreaRows(cr, table, pixels, nside) ==
    LET InPixels(k) == ang2pix(nside, table[k].pos) \in pixels
    IN  SelectSeq(AllRows(table), InPixels)

\* select_area: the pixel column is added to self.data when it is not there,
\* and selectedData becomes a new frame with the columns of self.data
GalCat_select_area(cr, table, pixels, nside) ==
    [dataCols  |-> cr.dataCols \cup {nside},
     selRows   |-> SelectAreaRows(cr, table, pixels, nside),
     selCols   |-> cr.dataCols \cup {nside},
     selIsData |-> FALSE]

\* faulty variant of ZRangeRows: the range applied to the full table
ZRangeOfData(cr, table, zMin, zMax) ==
    LET InRange(k) == table[k].z >= zMin /\ table[k].z < zMax
    IN  SelectSeq(AllRows(table), InRange)

\* set_z_range_for_selection, line 63: the rows of selectedData with
\* zMin <= z < zMax
ZRangeRows(cr, table, zMin, zMax) ==
    LET InRange(k) == table[k].z >= zMin /\ table[k].z < zMax
    IN  SelectSeq(cr.selRows, InRange)

\* set_z_range_for_selection: selectedData becomes a new frame with the
\* columns it had
GalCat_set_z_range_for_selection(cr, table, zMin, zMax) ==
    [dataCols  |-> cr.dataCols,
     selRows   |-> ZRangeRows(cr, table, zMin, zMax),
     selCols   |-> SelCols(cr),
     selIsData |-> FALSE]

\* get_inhom, lines 382-383 (get_inhom_contained, 313-314): the pixel column
\* is added to the frame get_data() returns when it is not there
EnsurePix(cr, nside) ==
    IF nside \in SelCols(cr) THEN cr
    ELSE IF cr.selIsData
         THEN [cr EXCEPT !.dataCols = @ \cup {nside}, !.selCols = @ \cup {nside}]
         ELSE [cr EXCEPT !.selCols = @ \cup {nside}]

-----------------------------------------------------------------------------
(* GalCompleted: the weights *)

\* a weight c * exp(x): the exponent is kept apart, exp being no rational
Weight(c, x) ==
    IF ~IsFinite(c) \/ c.n = 0 THEN [c |-> c, x |-> Num(0)] ELSE [c |-> c, x |-> x]

WNum(r) == Weight(r, Num(0))

WMul(a, b) == Weight(RMul(a.c, b.c), RAdd(a.x, b.x))

WDiv(a, b) == Weight(RDiv(a.c, b.c), RSub(a.x, b.x))

WIsNaN(a) == IsNaN(a.c)

RECURSIVE RSum(_)
RSum(s) == IF s = <<>> THEN Num(0) ELSE RAdd(s[1], RSum(Tail(s)))

\* np.mean: the sum over the count, nan (0/0) for no element
mean(s) == RDiv(RSum(s), Num(Len(s)))

\* np.clip(a, a_min, a_max)
clip(a, lo, hi) ==
    IF IsNaN(a) THEN a ELSE IF RLt(a, lo) THEN lo ELSE IF RLt(hi, a) THEN hi ELSE a

confpower == Rat(5, 100)

\* confidence
confidence(md, compl) ==
    IF md = "mult" THEN WNum(Num(1))
    ELSE IF md = "add" THEN WNum(compl)
    ELSE LET complb == clip(compl, Rat(2, 1000), Num(1))
         IN  Weight(Num(1), RMul(confpower, RSub(Num(1), RDiv(Num(1), complb))))

\* lines 393 and 328: the test for "no need to evaluate completeness"
Shortcut(md, gc) == md = "add" /\ Len(gc) = 1

\* faulty variant of ShortcutTotal: the total weighted by the mean completeness
ShortcutTotalByMean(w, compl) == RMul(Num(w), mean(compl))

\* line 394: catweightTotal = w
ShortcutTotal(w, compl) == Num(w)

\* line 407: catweight = w*np.mean(completeness)
CatWeight(w, compl) == RMul(Num(w), mean(compl))

\* get_inhom, line 399: the completeness of each selected galaxy at its z
PointCompleteness(c, cr, mdl) ==
    [k \in 1..Len(cr.selRows) |->
        completeness(mdl[c], data[c][cr.selRows[k]].pos, data[c][cr.selRows[k]].z)]

\* get_inhom, lines 388-412: the weights of one catalogue before the division
\* by catweightTotal
InhomCatWeights(c, w, cr, md, gc, mdl) ==
    LET compl == PointCompleteness(c, cr, mdl)
    IN  [k \in 1..Len(cr.selRows) |->
            LET w0 == WNum(Num(data[c][cr.selRows[k]].w))
                w1 == IF Shortcut(md, gc) THEN w0
                      ELSE WMul(WMul(WDiv(w0, WNum(compl[k])), confidence(md, compl[k])),
                                WNum(CatWeight(w, compl)))
            IN  WDiv(w1, WNum(comovingDensityGoal[c]))]

\* get_inhom: catweightTotal after the catalogues from the i-th on
RECURSIVE InhomTotal(_, _, _, _, _, _)
InhomTotal(i, total, gc, cw, md, mdl) ==
    IF i > Len(gc) THEN total
    ELSE LET compl == PointCompleteness(gc[i], cat[gc[i]], mdl)
         IN  InhomTotal(i + 1,
                        IF Shortcut(md, gc) THEN ShortcutTotal(cw[i], compl)
                        ELSE RAdd(total, CatWeight(cw[i], compl)),
                        gc, cw, md, mdl)

\* np.hstack / np.vstack of the catalogues' lists; also the elements of a
\* matrix, row after row
RECURSIVE hstack(_)
hstack(parts) == IF parts = <<>> THEN <<>> ELSE parts[1] \o hstack(Tail(parts))

\* get_inhom, lines 416-417: allweights
InhomWeights(gc, cw, md, mdl) ==
    LET total == InhomTotal(1, Num(0), gc, cw, md, mdl)
        Part(i) == InhomCatWeights(gc[i], cw[i], cat[gc[i]], md, gc, mdl)
        all == hstack([i \in 1..Len(gc) |-> Part(i)])
    IN  [k \in 1..Len(all) |-> WDiv(all[k], WNum(total))]

\* the pixel column of the selection, and its z column
InhomPixels(gc, nside) ==
    LET Part(i) == [k \in 1..Len(cat[gc[i]].selRows) |->
                       ang2pix(nside, data[gc[i]][cat[gc[i]].selRows[k]].pos)]
    IN  hstack([i \in 1..Len(gc) |-> Part(i)])

InhomRedshifts(gc) ==
    LET Part(i) == [k \in 1..Len(cat[gc[i]].selRows) |->
                       data[gc[i]][cat[gc[i]].selRows[k]].z]
    IN  hstack([i \in 1..Len(gc) |-> Part(i)])

\* bounded_keelin_3_discrete_probabilities for a galaxy whose quantiles all
\* equal its z: the whole mass in the grid cell of z
keelin(zGrid, z) == [j \in 1..Len(zGrid) |-> IF zGrid[j] = z THEN Num(1) ELSE Num(0)]

\* get_inhom_contained, line 334: the completeness of each selected galaxy
\* at each z of the grid
GridCompleteness(c, cr, zGrid, mdl) ==
    [k \in 1..Len(cr.selRows) |->
        [j \in 1..Len(zGrid) |-> completeness(mdl[c], data[c][cr.selRows[k]].pos, zGrid[j])]]

\* get_inhom_contained, lines 321-347: the weights of one catalogue before
\* the division by catweightTotal
ContainedCatWeights(c, w, cr, zGrid, md, gc, mdl) ==
    LET compl == GridCompleteness(c, cr, zGrid, mdl)
    IN  [k \in 1..Len(cr.selRows) |->
            [j \in 1..Len(zGrid) |->
                LET w0 == WMul(WNum(keelin(zGrid, data[c][cr.selRows[k]].z)[j]),
                               WNum(Num(data[c][cr.selRows[k]].w)))
                    w1 == IF Shortcut(md, gc) THEN w0
                          ELSE WMul(WMul(WDiv(w0, WNum(compl[k][j])),
                                         confidence(md, compl[k][j])),
                                    WNum(CatWeight(w, hstack(compl))))
                IN  WDiv(w1, WNum(comovingDensityGoal[c]))]]

RECURSIVE ContainedTotal(_, _, _, _, _, _, _)
ContainedTotal(i, total, gc, cw, zGrid, md, mdl) ==
    IF i > Len(gc) THEN total
    ELSE LET compl == hstack(GridCompleteness(gc[i], cat[gc[i]], zGrid, mdl))
         IN  ContainedTotal(i + 1,
                            IF Shortcut(md, gc) THEN ShortcutTotal(cw[i], compl)
                            ELSE RAdd(total, CatWeight(cw[i], compl)),
                            gc, cw, zGrid, md, mdl)

\* get_inhom_contained, lines 351-352: allweights
ContainedWeights(gc, cw, zGrid, md, mdl) ==
    LET total == ContainedTotal(1, Num(0), gc, cw, zGrid, md, mdl)
        Part(i) == ContainedCatWeights(gc[i], cw[i], cat[gc[i]], zGrid, md, gc, mdl)
        all == hstack([i \in 1..Len(gc) |-> Part(i)])
    IN  [k \in 1..Len(all) |-> [j \in 1..Len(zGrid) |-> WDiv(all[k][j], WNum(total))]]

-----------------------------------------------------------------------------
(* GalCompleted: the operations *)

Range(s) == {s[k] : k \in 1..Len(s)}

\* the catalogues as constructed, with the given choices of completeness
\* models and of completionType
CatInitOver(models, modes) ==
    /\ ParmapIdle
    /\ BatchIdle
    /\ FilterIdle
    /\ data = CatTables
    /\ cat = [c \in Cats |-> GalCat_init(CatTables[c])]
    /\ model \in [Cats -> models]
    /\ galcats = <<>>
    /\ catweights = <<>>
    /\ mode \in modes
    /\ out = [status |-> "none"]
    /\ hist = [c \in Cats |-> [loaded |-> CatTables[c], area |-> <<>>, zs |-> {},
                               computed |-> {}, recomputed |-> {}]]

\* add_cat(cat, weight)
add_cat(c, w) ==
    /\ c \notin Range(galcats)
    /\ galcats' = Append(galcats, c)
    /\ catweights' = Append(catweights, w)
    /\ out' = [status |-> "none"]
    /\ UNCHANGED <<data, cat, model, mode, hist>>

\* the history after a pixel column of resolution nside was computed or not
NotePix(h, wasComputed, nside) ==
    IF wasComputed
    THEN [h EXCEPT !.computed = @ \cup {nside},
                   !.recomputed = IF nside \in h.computed THEN @ \cup {nside} ELSE @]
    ELSE h

\* GalCompleted.select_area: select_area of every catalogue
GalCompleted_select_area(pixels, nside) ==
    /\ galcats # <<>>
    /\ cat' = [c \in Cats |->
                  IF c \in Range(galcats)
                  THEN GalCat_select_area(cat[c], data[c], pixels, nside)
                  ELSE cat[c]]
    /\ hist' = [c \in Cats |->
                  IF c \in Range(galcats)
                  THEN [NotePix(hist[c], nside \notin cat[c].dataCols, nside)
                            EXCEPT !.area = <<pixels, nside>>, !.zs = {}]
                  ELSE hist[c]]
    /\ out' = [status |-> "none"]
    /\ UNCHANGED <<data, model, galcats, catweights, mode>>

\* GalCompleted.set_z_range_for_selection: the same of every catalogue
GalCompleted_set_z_range_for_selection(zMin, zMax) ==
    /\ galcats # <<>>
    /\ cat' = [c \in Cats |->
                  IF c \in Range(galcats)
                  THEN GalCat_set_z_range_for_selection(cat[c], data[c], zMin, zMax)
                  ELSE cat[c]]
    /\ hist' = [c \in Cats |->
                  IF c \in Range(galcats)
                  THEN [hist[c] EXCEPT !.zs = @ \cup {<<zMin, zMax>>}]
                  ELSE hist[c]]
    /\ out' = [status |-> "none"]
    /\ UNCHANGED <<data, model, galcats, catweights, mode>>

\* the pixel columns after the loop of get_inhom / get_inhom_contained
PixEnsured(nside) ==
    /\ cat' = [c \in Cats |->
                  IF c \in Range(galcats) THEN EnsurePix(cat[c], nside) ELSE cat[c]]
    /\ hist' = [c \in Cats |->
                  IF c \in Range(galcats)
                  THEN NotePix(hist[c], nside \notin SelCols(cat[c]), nside)
                  ELSE hist[c]]

\* get_inhom(nside); np.hstack of no array raises
get_inhom(nside) ==
    /\ IF galcats = <<>>
       THEN /\ out' = [status |-> "raised", op |-> "get_inhom"]
            /\ UNCHANGED <<cat, hist>>
       ELSE /\ out' = [status    |-> "ok",
                       op        |-> "get_inhom",
                       pixels    |-> InhomPixels(galcats, nside),
                       redshifts |-> InhomRedshifts(galcats),
                       weights   |-> InhomWeights(galcats, catweights, mode, model)]
            /\ PixEnsured(nside)
    /\ UNCHANGED <<data, model, galcats, catweights, mode>>

\* get_inhom_contained(zGrid, nside); np.vstack of no array raises
get_inhom_contained(zGrid, nside) ==
    /\ IF galcats = <<>>
       THEN /\ out' = [status |-> "raised", op |-> "get_inhom_contained"]
            /\ UNCHANGED <<cat, hist>>
       ELSE /\ out' = [status  |-> "ok",
                       op      |-> "get_inhom_contained",
                       zGrid   |-> zGrid,
                       pixels  |-> InhomPixels(galcats, nside),
                       weights |-> ContainedWeights(galcats, catweights, zGrid, mode, model)]
            /\ PixEnsured(nside)
    /\ UNCHANGED <<data, model, galcats, catweights, mode>>

\* the calls on the aggregator, with arguments from the given sets
CatNextOver(pixelSets, nsides, zRanges) ==
    /\ \/ \E c \in Cats, w \in CatWeightChoices : add_cat(c, w)
       \/ \E pixels \in pixelSets, nside \in nsides : GalCompleted_select_area(pixels, nside)
       \/ \E r \in zRanges : GalCompleted_set_z_range_for_selection(r[1], r[2])
       \/ \E nside \in nsides : get_inhom(nside)
       \/ \E zGrid \in ZGrids, nside \in nsides : get_inhom_contained(zGrid, nside)
    /\ UNCHANGED <<pvars, bvars, fvars>>

\* the selections and the pixel columns: every pixel set, resolution and z
\* range, under the default completion and complete catalogues
CatInit == CatInitOver({1}, {"mix"})

CatNext == CatNextOver(PixelSets, Nsides, ZRanges)

SpecCat == CatInit /\ [][CatNext]_vars

\* the weights: every completion type and completeness model, over the
\* selections of one resolution
InhomInit == CatInitOver(ModelIds, {"add", "mult", "mix"})

InhomNext == CatNextOver({{0}, {0, 1}}, {1}, {<<0, 2>>})

SpecInhom == InhomInit /\ [][InhomNext]_vars

-----------------------------------------------------------------------------
(* GalCat and GalCompleted: the claims *)

\* the rows the calls made so far on catalogue c select: those in the pixel
\* set of the last select_area, at its resolution, and in every z range set
\* since
ExpectedSelection(c) ==
    LET h == hist[c]
        Selected(k) ==
            /\ h.area = <<>> \/ ang2pix(h.area[2], data[c][k].pos) \in h.area[1]
            /\ \A r \in h.zs : r[1] <= data[c][k].z /\ data[c][k].z < r[2]
    IN  SelectSeq(AllRows(data[c]), Selected)

\* C4: after any sequence of select_area and set_z_range_for_selection calls
\* the selection of a catalogue is exactly the rows of its full table whose
\* pixel, at the resolution of the last select_area, is in that call's pixel
\* set (all rows if there was none) and whose z lies in every half-open range
\* set since; the full table's rows are never removed or changed.
C4_SelectionIsLastAreaAndRanges ==
    \A c \in Cats :
        /\ cat[c].selRows = ExpectedSelection(c)
        /\ data[c] = hist[c].loaded

\* a catalogue after a select_area and two different z ranges that leave one
\* of its rows
C4_Witness ==
    \E c \in Cats :
        /\ hist[c].area # <<>>
        /\ Cardinality(hist[c].zs) = 2
        /\ Len(cat[c].selRows) = 1
        /\ Len(data[c]) > 1

SelectionNarrowed(c) == Range(cat[c].selRows)' \subseteq Range(cat[c].selRows)

\* C5 as stated: the selection after every call is a subset of the selection
\* before it.
C5_SelectionNarrows == [][\A c \in Cats : SelectionNarrowed(c)]_vars

\* C5 as amended: the selection after a set_z_range_for_selection call is a
\* subset of the selection before it, and the selection after any call is a
\* subset of the rows of the full table.
C5_ZRangeNarrows ==
    [][/\ \A c \in Cats : Range(cat[c].selRows)' \subseteq Range(AllRows(data[c]))
       /\ (\E r \in ZRanges : GalCompleted_set_z_range_for_selection(r[1], r[2]))
             => \A c \in Cats : SelectionNarrowed(c)]_vars

\* a z range has removed rows that the last select_area had kept
C5_Witness ==
    \E c \in Range(galcats) :
        /\ hist[c].area # <<>>
        /\ hist[c].zs # {}
        /\ Len(cat[c].selRows) <
               Len(SelectAreaRows(cat[c], data[c], hist[c].area[1], hist[c].area[2]))

\* C9: a pixel column, once computed for a catalogue, is stored on the
\* catalogue's full table, is there for every later selection, and is never
\* computed again.
C9_PixelColumnKept ==
    \A c \in Cats :
        /\ \A r \in hist[c].computed : r \in cat[c].dataCols /\ r \in SelCols(cat[c])
        /\ hist[c].recomputed = {}

\* the catalogues of gc whose selection has a row, and their weights
RECURSIVE NonEmptyOf(_, _)
NonEmptyOf(gc, s) ==
    IF gc = <<>> THEN <<>>
    ELSE (IF cat[gc[1]].selRows = <<>> THEN <<>> ELSE <<s[1]>>)
             \o NonEmptyOf(Tail(gc), Tail(s))

\* the weights the call that produced out returns for the catalogues gc with
\* weights cw and completeness models mdl
WeightsOf(gc, cw, mdl) ==
    IF out.op = "get_inhom" THEN InhomWeights(gc, cw, mode, mdl)
    ELSE ContainedWeights(gc, cw, out.zGrid, mode, mdl)

AllWeights(w) ==
    IF out.op = "get_inhom" THEN w ELSE hstack(w)

\* C3: in an aggregator of two or more catalogues, a catalogue with an empty
\* selection adds nothing to the catalogue-weight total: get_inhom and
\* get_inhom_contained return, the weights are numbers, and they equal the
\* weights returned without the empty catalogue.
C3_EmptyCatalogueNeutral ==
    (/\ out.status = "ok"
     /\ Len(galcats) >= 2
     /\ \E i \in 1..Len(galcats) : cat[galcats[i]].selRows = <<>>)
    => /\ \A k \in 1..Len(AllWeights(out.weights)) : ~WIsNaN(AllWeights(out.weights)[k])
       /\ out.weights = WeightsOf(NonEmptyOf(galcats, galcats),
                                  NonEmptyOf(galcats, catweights), model)

\* C7 as stated: in additive mode the weights do not depend on the
\* completeness: any other completeness models give the same weights.
C7_AdditiveIgnoresCompleteness ==
    (out.status = "ok" /\ mode = "add")
    => \A mdl \in [Cats -> ModelIds] : WeightsOf(galcats, catweights, mdl) = out.weights

\* C7 as amended: in additive mode with exactly one catalogue in the
\* aggregator the weights do not depend on the completeness.
C7_SingleAdditiveIgnoresCompleteness ==
    (out.status = "ok" /\ mode = "add" /\ Len(galcats) = 1)
    => \A mdl \in [Cats -> ModelIds] : WeightsOf(galcats, catweights, mdl) = out.weights

\* get_inhom has returned weights for the one catalogue of an additive
\* aggregator whose completeness is below one somewhere
C7_Witness ==
    /\ out.status = "ok"
    /\ out.op = "get_inhom"
    /\ mode = "add"
    /\ Len(galcats) = 1
    /\ Len(out.weights) >= 2
    /\ model[galcats[1]] = 2

-----------------------------------------------------------------------------
(* include_vol_prior: the claims *)

\* the blocks lie one after the other from row 0 to row N, none empty
Tiles(blocks, N) ==
    /\ blocks # <<>>
    /\ blocks[1][1] = 0
    /\ blocks[Len(blocks)][2] = N
    /\ \A k \in 1..Len(blocks) : blocks[k][1] < blocks[k][2]
    /\ \A k \in 1..(Len(blocks) - 1) : blocks[k][2] = blocks[k + 1][1]

\* the rows at which two batches meet, and the first and last row
EdgeRows(N) ==
    {0, N - 1} \cup
    {r \in UNION {{BatchStart(N, NBatches(N), b) - 1, BatchStart(N, NBatches(N), b)} :
                      b \in 0..(NBatches(N) - 1)} : r >= 0 /\ r < N}

\* C8: the batches partition the table: the row ranges of the nBatches
\* batches are contiguous, disjoint and cover rows 0..N-1 once in increasing
\* order, so the stacked result has N rows, row i holding the corrected
\* quantiles of input row i, as with a single batch.
C8_BatchesPartition ==
    bpc = "stacked" =>
        /\ Len(bBlocks) = NBatches(bN)
        /\ \A b \in 0..(NBatches(bN) - 1) :
              bBlocks[b + 1] = <<BatchStart(bN, NBatches(bN), b),
                                 BatchStop(bN, NBatches(bN), b)>>
        /\ Tiles(bStacked, bN)
        /\ RowCount(bStacked) = bN
        /\ \A i \in EdgeRows(bN) :
              RowAt(bStacked, i) = RowAt(vstack(<<convolve_batch(bN, 0, 1)>>), i)

\* a table of three batches whose length is no multiple of three has been
\* stacked after the results arrived out of order
C8_Witness ==
    /\ bpc = "stacked"
    /\ NBatches(bN) = 3
    /\ bN % 3 # 0
    /\ bArrival[1][1] # 0

QuantilesOrdered(q) ==
    /\ RLe(q[1], q[2])
    /\ RLe(q[2], q[3])
    /\ RLe(q[3], q[4])
    /\ RLe(q[4], q[5])
    /\ RGe(q[1], Num(0))

StrictlyIncreasing(q) ==
    /\ RLt(q[1], q[2])
    /\ RLt(q[2], q[3])
    /\ RLt(q[3], q[4])
    /\ RLt(q[4], q[5])

\* C6: every row of the table include_vol_prior returns satisfies
\* z_lowerbound <= z_lower <= z <= z_upper <= z_upperbound and
\* z_lowerbound >= 0, whatever the convolution produced (nan included): a row
\* whose corrected quantiles are not strictly increasing, or whose corrected
\* lower bound is negative, is removed.
C6_SurvivorsOrdered ==
    fpc = "returned" =>
        /\ \A k \in 1..Len(fOut) : QuantilesOrdered(fOut[k].q)
        /\ \A k \in 1..Len(fDf) :
              (~StrictlyIncreasing(fRes[k]) \/ ~RGe(fRes[k][1], Num(0)))
                  => \A j \in 1..Len(fOut) : fOut[j].id # fDf[k]

-----------------------------------------------------------------------------
(* parmap: the claims *)

NoFailure == \A k \in 1..Len(X) : X[k] \notin failSet

ParmapExpected == [k \in 1..Len(X) |-> f(X[k])]

\* C1: when parmap returns, the returned list has one result per input
\* element, in input order: its i-th element is f(X[i]), whatever the
\* number of workers and the order in which they completed.
C1_ParmapOrdered == mpc = "done" => ret = ParmapExpected

\* parmap has returned after the results arrived out of input order
C1_Witness ==
    /\ mpc = "done"
    /\ Len(res) >= 2
    /\ \E k \in 1..(Len(res) - 1) : res[k][1] > res[k + 1][1]
    /\ ret # Seconds(res)

ParmapBlocked == mpc # "done" /\ ~ENABLED ParmapNext

\* C2: a failure of f inside a worker propagates to the caller: parmap never
\* returns a list with that item's result missing, and the caller is never
\* left waiting for a result that cannot arrive.
C2_FailurePropagates ==
    (\E w \in Workers : wpc[w] = "failed") =>
        /\ (mpc = "done" => Len(ret) = Len(X))
        /\ ~ParmapBlocked

ParmapTerminated ==
    /\ mpc = "done"
    /\ \A w \in Workers : wpc[w] = "exited"
    /\ stops = nCores
    /\ Len(res) = Len(X)
    /\ joined = nCores
    /\ q_in = <<>>
    /\ q_out = <<>>

\* C10: when f returns normally on every input, parmap terminates under fair
\* scheduling: all items and nCores sentinels are enqueued, every worker
\* takes one sentinel and exits, all results are collected, every join
\* returns and both queues end empty.
C10_ParmapTerminates == NoFailure ~> ParmapTerminated

\* a run of two workers over several items has terminated
C10_Witness ==
    /\ ParmapTerminated
    /\ nCores >= 2
    /\ Len(X) >= 2

=============================================================================
